---- MODULE Spec2Model ----
(***************************************************************************)
(* The fuzzy inference scoring engine of fuzzy_model.py: the module-level  *)
(* control system simulation object recommendation_sim and the facade      *)
(* get_fuzzy_score that drives it.                                         *)
(*                                                                         *)
(* Numbers are fixed point.  CGPA and sector match are in tenths, skill    *)
(* match in points, membership degrees in 1/Unit, the recommendation       *)
(* universe in 1/XScale of a point, returned scores in hundredths.  On the *)
(* input grid used here (CGPA in tenths, skill in steps of five, sector    *)
(* in tenths) every division below is exact, so degrees, cut points and    *)
(* the centroid are the exact rationals of the real-number computation;    *)
(* the rounding error of the floating-point universes is not modelled.     *)
(***************************************************************************)
EXTENDS Integers, Sequences, FiniteSets, TLC

\* full membership (1.0)
Unit == 360

\* one point of the recommendation universe
XScale == 6

\* how many tenths outside [2.0, 4.0] the CGPA arguments reach
CgpaOver == 1

\* how many calls the sequential program makes
MaxCalls == 2

(***************************************************************************)
(* Values a caller can pass: numbers, a string that is no number, None.    *)
(***************************************************************************)
Num(n) == [type |-> "float", val |-> n]

BadStr == [type |-> "str", val |-> 0]

NoneVal == [type |-> "NoneType", val |-> 0]

Min2(a, b) == IF a <= b THEN a ELSE b

Max2(a, b) == IF a >= b THEN a ELSE b

Min3(a, b, c) == Min2(a, Min2(b, c))

SetMax(S) == CHOOSE x \in S : \A y \in S : y <= x

SetMin(S) == CHOOSE x \in S : \A y \in S : x <= y

(***************************************************************************)
(* Universes (np.arange) and triangular membership functions (fuzz.trimf). *)
(***************************************************************************)
cgpa_universe == [lo |-> 20, hi |-> 40]

skill_match_universe == [lo |-> 0, hi |-> 100]

sector_match_universe == [lo |-> 0, hi |-> 10]

recommendation_universe == [lo |-> 0, hi |-> 100]

Trimf(x, abc) ==
    LET a == abc[1]
        b == abc[2]
        c == abc[3]
    IN  IF x = b THEN Unit
        ELSE IF a # b /\ a < x /\ x < b THEN (Unit * (x - a)) \div (b - a)
        ELSE IF b # c /\ b < x /\ x < c THEN (Unit * (c - x)) \div (c - b)
        ELSE 0

cgpa_terms == [low |-> <<20, 20, 32>>, medium |-> <<29, 34, 38>>, high |-> <<36, 40, 40>>]

skill_match_terms == [poor |-> <<0, 0, 60>>, fair |-> <<45, 70, 90>>, excellent |-> <<80, 100, 100>>]

sector_match_terms == [no |-> <<0, 0, 6>>, yes |-> <<4, 10, 10>>]

recommendation_terms ==
    [weak     |-> <<XScale * 0, XScale * 10, XScale * 40>>,
     moderate |-> <<XScale * 30, XScale * 60, XScale * 80>>,
     strong   |-> <<XScale * 70, XScale * 100, XScale * 100>>]

Terms == {"weak", "moderate", "strong"}

(***************************************************************************)
(* Fuzzification of the three crisp inputs held by the simulation.         *)
(***************************************************************************)
Fuzzify(input) ==
    [cgpa   |-> [l \in DOMAIN cgpa_terms |-> Trimf(input.cgpa, cgpa_terms[l])],
     skill  |-> [l \in DOMAIN skill_match_terms |-> Trimf(input.skill_match, skill_match_terms[l])],
     sector |-> [l \in DOMAIN sector_match_terms |-> Trimf(input.sector_match, sector_match_terms[l])]]

(***************************************************************************)
(* The nine rules: firing strength (& is min, | is max) and consequent.    *)
(***************************************************************************)
rule1(m) == [fire |-> Min3(m.cgpa.high, m.skill.excellent, m.sector.yes), then |-> "strong"]

rule2(m) == [fire |-> Min3(m.cgpa.medium, m.skill.excellent, m.sector.yes), then |-> "strong"]

\* rule 3 with the consequent of rules 1 and 2
rule3_strong(m) == [fire |-> Min3(m.cgpa.low, m.skill.excellent, m.sector.yes), then |-> "strong"]

rule3(m) == [fire |-> Min3(m.cgpa.low, m.skill.excellent, m.sector.yes), then |-> "moderate"]

rule4(m) == [fire |-> Min3(m.cgpa.high, m.skill.fair, m.sector.yes), then |-> "moderate"]

rule5(m) == [fire |-> Min3(m.cgpa.high, m.skill.excellent, m.sector.no), then |-> "moderate"]

\* rule 6 with the consequent of rules 1 and 2
rule6_strong(m) == [fire |-> Max2(m.cgpa.low, m.skill.poor), then |-> "strong"]

rule6(m) == [fire |-> Max2(m.cgpa.low, m.skill.poor), then |-> "weak"]

rule7(m) == [fire |-> Min2(m.sector.no, m.skill.fair), then |-> "weak"]

rule8(m) == [fire |-> Min3(m.cgpa.medium, m.skill.fair, m.sector.no), then |-> "weak"]

rule9(m) == [fire |-> Min2(m.cgpa.high, m.sector.yes), then |-> "moderate"]

recommendation_ctrl(m) ==
    <<rule1(m), rule2(m), rule3(m), rule4(m), rule5(m), rule6(m), rule7(m), rule8(m), rule9(m)>>

(***************************************************************************)
(* Accumulation: each output term is cut at the strongest rule naming it.  *)
(***************************************************************************)
Cuts(m) ==
    LET rules == recommendation_ctrl(m)
    IN  [t \in Terms |-> SetMax({0} \cup {rules[i].fire : i \in {j \in DOMAIN rules : rules[j].then = t}})]

(***************************************************************************)
(* The universe is upsampled with the points where each term's membership  *)
(* function meets its own cut; the aggregate curve is the point-wise       *)
(* maximum of the clipped terms, linear between consecutive samples.       *)
(***************************************************************************)
CutPoints(abc, w) ==
    (IF abc[1] # abc[2] THEN {abc[1] + (w * (abc[2] - abc[1])) \div Unit} ELSE {})
    \cup
    (IF abc[2] # abc[3] THEN {abc[3] - (w * (abc[3] - abc[2])) \div Unit} ELSE {})

NewValues(cuts) == UNION {CutPoints(recommendation_terms[t], cuts[t]) : t \in Terms}

Activated(x, cuts) ==
    SetMax({Min2(cuts[t], Trimf(x, recommendation_terms[t])) : t \in Terms})

NextSample(x, pts) ==
    LET g == XScale * ((x \div XScale) + 1)
        inside == {p \in pts : p > x /\ p < g}
    IN  IF inside = {} THEN g ELSE SetMin(inside)

(***************************************************************************)
(* centroid(): sums over the segments between consecutive samples of       *)
(* 6 * moment * area (m) and 2 * area (a).  SegmentSums walks the samples  *)
(* from x up to the grid point stop; CentroidSums adds up the grid cells   *)
(* lo .. hi - 1 of the universe.                                           *)
(***************************************************************************)
RECURSIVE SegmentSums(_, _, _, _)
SegmentSums(x, stop, pts, cuts) ==
    IF x >= stop THEN [m |-> 0, a |-> 0]
    ELSE LET nx   == NextSample(x, pts)
             y1   == Activated(x, cuts)
             y2   == Activated(nx, cuts)
             rest == SegmentSums(nx, stop, pts, cuts)
         IN  [m |-> rest.m + (nx - x) * (y1 * (2 * x + nx) + y2 * (x + 2 * nx)),
              a |-> rest.a + (nx - x) * (y1 + y2)]

RECURSIVE CentroidSums(_, _, _, _)
CentroidSums(lo, hi, pts, cuts) ==
    IF hi - lo = 1 THEN SegmentSums(XScale * lo, XScale * hi, pts, cuts)
    ELSE LET mid   == (lo + hi) \div 2
             left  == CentroidSums(lo, mid, pts, cuts)
             right == CentroidSums(mid, hi, pts, cuts)
         IN  [m |-> left.m + right.m, a |-> left.a + right.a]

\* the centroid with the factor 3 of the moment sum left out
CentroidThird(s) == [num |-> s.m, den |-> XScale * s.a]

Centroid(s) == [num |-> s.m, den |-> 3 * XScale * s.a]

(***************************************************************************)
(* CrispValueCalculator.defuzz: an aggregate curve that is zero everywhere *)
(* has no centroid and raises.                                             *)
(***************************************************************************)
Defuzz(input) ==
    LET cuts == Cuts(Fuzzify(input))
        s    == CentroidSums(recommendation_universe.lo, recommendation_universe.hi, NewValues(cuts), cuts)
    IN  IF s.a = 0 THEN [exc |-> "ValueError", value |-> [num |-> 0, den |-> 1]]
        ELSE [exc |-> "none", value |-> Centroid(s)]

(***************************************************************************)
(* The inputs a simulation can hold once all three are set, and the        *)
(* outcome of defuzzification for each of them.                            *)
(***************************************************************************)
CgpaVals == cgpa_universe.lo .. cgpa_universe.hi

SkillVals == {5 * k : k \in 0..20}

SectorVals == {sector_match_universe.lo, sector_match_universe.hi}

InputSpace == [cgpa : CgpaVals, skill_match : SkillVals, sector_match : SectorVals]

DefuzzTable == [i \in InputSpace |-> Defuzz(i)] @@ <<>>

(***************************************************************************)
(* State.  recommendation_sim is the module-level simulation shared by     *)
(* every call: its input and output dictionaries.  calls counts the calls *)
(* of the sequential program, call and result record the last of them;    *)
(* pc, targs and tret are the position, arguments and return value of     *)
(* each concurrent caller.                                                 *)
(***************************************************************************)
VARIABLES recommendation_sim, calls, call, result, pc, targs, tret

vars == <<recommendation_sim, calls, call, result, pc, targs, tret>>

Threads == {1, 2}

NoArgs == <<>>

Returned(v) == [raised |-> FALSE, value |-> v]

Raised == [raised |-> TRUE, value |-> 0]

(***************************************************************************)
(* float(x)                                                                *)
(***************************************************************************)
Float(v) ==
    IF v.type = "float" THEN [exc |-> "none", val |-> v.val]
    ELSE IF v.type = "str" THEN [exc |-> "ValueError", val |-> 0]
    ELSE [exc |-> "TypeError", val |-> 0]

Universe(key) ==
    IF key = "cgpa" THEN cgpa_universe
    ELSE IF key = "skill_match" THEN skill_match_universe
    ELSE sector_match_universe

Clip(key, x) == Min2(Max2(x, Universe(key).lo), Universe(key).hi)

(***************************************************************************)
(* recommendation_sim.input[key] = float(v): the value is clipped to the   *)
(* variable's universe; a failed coercion leaves the simulation untouched. *)
(***************************************************************************)
SetInput(sim, key, v) ==
    LET f == Float(v)
    IN  IF f.exc # "none" THEN [sim |-> sim, exc |-> f.exc]
        ELSE [sim |-> [sim EXCEPT !.input =
                          [k \in DOMAIN sim.input \cup {key} |->
                              IF k = key THEN Clip(key, f.val) ELSE sim.input[k]]],
              exc |-> "none"]

(***************************************************************************)
(* recommendation_sim.compute(): on success the output dictionary gets the *)
(* crisp value; on failure the exception leaves the old output in place.   *)
(***************************************************************************)
\* compute() that swallows a failed defuzzification and keeps the old output
ComputeKeepStale(sim) ==
    IF DOMAIN sim.input # {"cgpa", "skill_match", "sector_match"}
    THEN [sim |-> sim, exc |-> "ValueError"]
    ELSE LET d == DefuzzTable[sim.input]
         IN  IF d.exc # "none" THEN [sim |-> sim, exc |-> "none"]
             ELSE [sim |-> [sim EXCEPT !.output = [recommendation |-> d.value]], exc |-> "none"]

Compute(sim) ==
    IF DOMAIN sim.input # {"cgpa", "skill_match", "sector_match"}
    THEN [sim |-> sim, exc |-> "ValueError"]
    ELSE LET d == DefuzzTable[sim.input]
         IN  IF d.exc # "none" THEN [sim |-> sim, exc |-> d.exc]
             ELSE [sim |-> [sim EXCEPT !.output = [recommendation |-> d.value]], exc |-> "none"]

(***************************************************************************)
(* round(x, 2), in hundredths.                                             *)
(***************************************************************************)
Round2(q) ==
    LET w == q.num \div q.den
        r == q.num % q.den
    IN  100 * w + (200 * r + q.den) \div (2 * q.den)

(***************************************************************************)
(* except Exception as e: ... return 0.0                                   *)
(***************************************************************************)
\* an except clause that names ValueError alone
CaughtValueErrorOnly(e) == e = "ValueError"

Caught(e) == e \in {"ValueError", "TypeError"}

Except(r) == [sim |-> r.sim, ret |-> IF Caught(r.exc) THEN Returned(0) ELSE Raised]

(***************************************************************************)
(* if 'recommendation' in recommendation_sim.output: return round(...)     *)
(* else: return 5.0                                                        *)
(***************************************************************************)
ReadOutput(sim) ==
    IF "recommendation" \in DOMAIN sim.output
    THEN Returned(Round2(sim.output.recommendation))
    ELSE Returned(500)

(***************************************************************************)
(* get_fuzzy_score run to completion on simulation state sim: the three    *)
(* input assignments, compute(), the read of the output; the first         *)
(* exception ends the try block.                                           *)
(***************************************************************************)
get_fuzzy_score(sim, a) ==
    LET s1 == SetInput(sim, "cgpa", a[1])
        s2 == SetInput(s1.sim, "skill_match", a[2])
        s3 == SetInput(s2.sim, "sector_match", a[3])
        c  == Compute(s3.sim)
    IN  IF s1.exc # "none" THEN Except(s1)
        ELSE IF s2.exc # "none" THEN Except(s2)
        ELSE IF s3.exc # "none" THEN Except(s3)
        ELSE IF c.exc # "none" THEN Except(c)
        ELSE [sim |-> c.sim, ret |-> ReadOutput(c.sim)]

(***************************************************************************)
(* Arguments callers pass: the grid of numeric triples (CGPA up to         *)
(* CgpaOver tenths outside its universe), and triples with one argument    *)
(* that float() rejects.                                                   *)
(***************************************************************************)
NumArgs ==
    {<<Num(c), Num(s), Num(z)>> :
        c \in (cgpa_universe.lo - CgpaOver) .. (cgpa_universe.hi + CgpaOver),
        s \in SkillVals, z \in SectorVals}

BadArgs ==
    {<<BadStr, Num(70), Num(10)>>, <<Num(39), NoneVal, Num(10)>>, <<Num(39), Num(95), BadStr>>}

Args == NumArgs \cup BadArgs

fresh_sim == [input |-> <<>>, output |-> <<>>]

Init ==
    /\ recommendation_sim = fresh_sim
    /\ calls = 0
    /\ call = NoArgs
    /\ result = Returned(0)
    /\ pc = [t \in Threads |-> "idle"]
    /\ targs = [t \in Threads |-> NoArgs]
    /\ tret = [t \in Threads |-> Returned(0)]

(***************************************************************************)
(* The sequential program: one whole call after another on the shared      *)
(* simulation, MaxCalls of them.                                           *)
(***************************************************************************)
GetFuzzyScore(a) ==
    /\ calls < MaxCalls
    /\ \E r \in {get_fuzzy_score(recommendation_sim, a)} :
        /\ recommendation_sim' = r.sim
        /\ result' = r.ret
    /\ calls' = calls + 1
    /\ call' = a
    /\ UNCHANGED <<pc, targs, tret>>

Next == \E a \in Args : GetFuzzyScore(a)

Spec == Init /\ [][Next]_vars

(***************************************************************************)
(* Concurrent callers: each thread makes one call, and the statements of   *)
(* get_fuzzy_score (lines 95, 96, 97, 100, 102) of the two threads         *)
(* interleave on the shared simulation.                                    *)
(***************************************************************************)
ConcArgs ==
    {<<Num(39), Num(95), Num(10)>>, <<Num(22), Num(30), Num(0)>>,
     <<Num(34), Num(70), Num(10)>>, <<Num(39), NoneVal, Num(10)>>}

Begin(t, a) ==
    /\ pc[t] = "idle"
    /\ targs' = [targs EXCEPT ![t] = a]
    /\ pc' = [pc EXCEPT ![t] = "l95"]
    /\ UNCHANGED <<recommendation_sim, calls, call, result, tret>>

Statement(t, r, next) ==
    /\ recommendation_sim' = r.sim
    /\ IF r.exc # "none"
       THEN /\ tret' = [tret EXCEPT ![t] = Except(r).ret]
            /\ pc' = [pc EXCEPT ![t] = "done"]
       ELSE /\ tret' = tret
            /\ pc' = [pc EXCEPT ![t] = next]
    /\ UNCHANGED <<calls, call, result, targs>>

Line95(t) ==
    /\ pc[t] = "l95"
    /\ Statement(t, SetInput(recommendation_sim, "cgpa", targs[t][1]), "l96")

Line96(t) ==
    /\ pc[t] = "l96"
    /\ Statement(t, SetInput(recommendation_sim, "skill_match", targs[t][2]), "l97")

Line97(t) ==
    /\ pc[t] = "l97"
    /\ Statement(t, SetInput(recommendation_sim, "sector_match", targs[t][3]), "l100")

Line100(t) ==
    /\ pc[t] = "l100"
    /\ Statement(t, Compute(recommendation_sim), "l102")

Line102(t) ==
    /\ pc[t] = "l102"
    /\ tret' = [tret EXCEPT ![t] = ReadOutput(recommendation_sim)]
    /\ pc' = [pc EXCEPT ![t] = "done"]
    /\ UNCHANGED <<recommendation_sim, calls, call, result, targs>>

NextConc ==
    \E t \in Threads :
        \/ \E a \in ConcArgs : Begin(t, a)
        \/ Line95(t)
        \/ Line96(t)
        \/ Line97(t)
        \/ Line100(t)
        \/ Line102(t)

SpecConc == Init /\ [][NextConc]_vars

(***************************************************************************)
(* Properties.  Called, IsNumeric, Valid, InputOf, Strengths, AllRulesZero *)
(* and OnlyWeakFire are the vocabulary of the properties below.            *)
(***************************************************************************)
Called == call # NoArgs

IsNumeric(a) == \A i \in 1..3 : a[i].type = "float"

Valid(a) ==
    /\ IsNumeric(a)
    /\ a[1].val \in cgpa_universe.lo .. cgpa_universe.hi
    /\ a[2].val \in skill_match_universe.lo .. skill_match_universe.hi
    /\ a[3].val \in SectorVals

InputOf(a) ==
    [cgpa |-> Clip("cgpa", a[1].val),
     skill_match |-> Clip("skill_match", a[2].val),
     sector_match |-> Clip("sector_match", a[3].val)]

Strengths(a) == LET rules == recommendation_ctrl(Fuzzify(InputOf(a)))
                IN  [i \in DOMAIN rules |-> rules[i].fire]

AllRulesZero(a) == \A i \in 1..9 : Strengths(a)[i] = 0

OnlyWeakFire(a) ==
    /\ \E i \in {6, 7, 8} : Strengths(a)[i] > 0
    /\ \A i \in {1, 2, 3, 4, 5, 9} : Strengths(a)[i] = 0

Alone(a) == get_fuzzy_score(fresh_sim, a).ret

(***************************************************************************)
(* C1: get_fuzzy_score is total.  Every call returns a float and raises    *)
(* nothing; when an argument cannot be coerced to a number, or the         *)
(* inference computation fails, the value returned is 0.0.                 *)
(***************************************************************************)
C1_Total ==
    Called =>
        /\ ~result.raised
        /\ (~IsNumeric(call) \/ AllRulesZero(call)) => result = Returned(0)

C1_Witness ==
    /\ call = <<Num(39), NoneVal, Num(10)>>
    /\ result = Returned(0)

(***************************************************************************)
(* C2: when all nine rules fire with strength zero, as for cgpa = 3.4,     *)
(* skill_match = 70, sector_match = 1.0, get_fuzzy_score returns the       *)
(* fallback score 5.0.                                                     *)
(***************************************************************************)
C2_ZeroMembershipReturnsFallback ==
    (Called /\ Valid(call) /\ AllRulesZero(call)) => result = Returned(500)

(***************************************************************************)
(* C3: for the average candidate (cgpa = 3.2, skill_match = 60,            *)
(* sector_match = 1.0), get_fuzzy_score returns a value between 30 and 80. *)
(***************************************************************************)
C3_AverageCandidateModerate ==
    call = <<Num(32), Num(60), Num(10)>> =>
        /\ ~result.raised
        /\ result.value >= 3000
        /\ result.value <= 8000

(***************************************************************************)
(* C4: for the perfect candidate (cgpa = 3.9, skill_match = 95,            *)
(* sector_match = 1.0), get_fuzzy_score returns a value greater than 70.   *)
(***************************************************************************)
C4_PerfectCandidateHigh ==
    call = <<Num(39), Num(95), Num(10)>> =>
        /\ ~result.raised
        /\ result.value > 7000

(***************************************************************************)
(* C5: for every cgpa in [2.0, 4.0], skill_match in [0, 100] and           *)
(* sector_match in {0.0, 1.0}, the returned value lies in [0, 100].        *)
(***************************************************************************)
C5_Range ==
    (Called /\ Valid(call)) =>
        /\ ~result.raised
        /\ result.value >= 0
        /\ result.value <= 10000

C5_Witness ==
    /\ call = <<Num(34), Num(100), Num(10)>>
    /\ result = Returned(9000)

(***************************************************************************)
(* C6: the value a call returns depends only on its three arguments.  In   *)
(* every state of the shared simulation, whatever calls were made before   *)
(* (failed ones and no-rule-fires ones included), a call returns the value *)
(* it returns on a freshly constructed simulation; so two calls with       *)
(* identical arguments return identical values.                            *)
(***************************************************************************)
C6_DependsOnlyOnArguments == Called => result = Alone(call)

C6_WitnessAfterFailure ==
    /\ calls = 2
    /\ call = <<Num(34), Num(70), Num(10)>>
    /\ result = Returned(0)
    /\ "recommendation" \in DOMAIN recommendation_sim.output

(***************************************************************************)
(* C7: concurrent calls do not affect each other.  When two calls run      *)
(* with their statements interleaved, each returns the value it returns    *)
(* when run alone with its own arguments.                                  *)
(***************************************************************************)
C7_ConcurrentCallsIsolated ==
    \A t \in Threads : pc[t] = "done" => tret[t] = Alone(targs[t])

(***************************************************************************)
(* C8: the score is monotone non-decreasing in CGPA.  Of two calls with    *)
(* the same skill_match and sector_match, the one with the larger CGPA     *)
(* does not return the smaller score.                                      *)
(***************************************************************************)
C8_MonotoneInCgpa ==
    [][(/\ Called
        /\ Valid(call)
        /\ Valid(call')
        /\ call'[2] = call[2]
        /\ call'[3] = call[3]
        /\ call[1].val <= call'[1].val) => result.value <= result'.value]_vars

(***************************************************************************)
(* C9: rule 6 is a veto.  With cgpa = 2.0 or skill_match = 0 the returned  *)
(* score is below 40 whatever the other inputs are.                        *)
(***************************************************************************)
C9_Rule6Veto ==
    (Called /\ Valid(call) /\ (call[1].val = 20 \/ call[2].val = 0)) =>
        /\ ~result.raised
        /\ result.value < 4000

C9_Witness ==
    /\ call = <<Num(20), Num(100), Num(10)>>
    /\ Strengths(call)[6] = Unit
    /\ Strengths(call)[3] = Unit
    /\ result = Returned(3896)

(***************************************************************************)
(* C10: when the only rules firing with non-zero strength conclude weak    *)
(* (rules 6, 7, 8), the returned score is strictly between 0 and 40.       *)
(***************************************************************************)
C10_WeakOnly ==
    (Called /\ Valid(call) /\ OnlyWeakFire(call)) =>
        /\ ~result.raised
        /\ result.value > 0
        /\ result.value < 4000

C10_Witness ==
    /\ call = <<Num(22), Num(30), Num(0)>>
    /\ OnlyWeakFire(call)
    /\ result = Returned(1683)

====
